---- MODULE Spec2Model ----
(***************************************************************************)
(* Model of the "IBM Interview Practice" function collection.  Every       *)
(* function of the repository is a pure function of its arguments; a call  *)
(* is modelled as one action that applies the function to the arguments    *)
(* drawn in the initial state and stores what the call produced: a value,  *)
(* None (falling off the end of the body), or a raised exception.          *)
(***************************************************************************)
EXTENDS Integers, Sequences, FiniteSets, TLC

VARIABLES pc, op, args, result

vars == <<pc, op, args, result>>

----------------------------------------------------------------------------
(* Bounds of the explored inputs. *)

\* longest integer sequence that is enumerated
MaxLen == 4
\* largest integer element that is enumerated (elements range over -1..MaxVal)
MaxVal == 2

----------------------------------------------------------------------------
(* Python values and outcomes of a call. *)

IntResult(v) == [kind |-> "int", val |-> v]
BoolResult(b) == [kind |-> "bool", val |-> b]
ListResult(l) == [kind |-> "list", val |-> l]
NoneResult == [kind |-> "None", val |-> 0]
Raise(exc) == [kind |-> "raise", val |-> exc]
Pending == [kind |-> "pending", val |-> 0]

\* all sequences over S of length at most n
SeqsUpTo(S, n) == UNION {[1..k -> S] : k \in 0..n}

\* nums[i] for a Python list: 0-based, a negative i counts from the end
InRange(nums, i) == (0 - Len(nums)) <= i /\ i < Len(nums)
Get(nums, i) == IF i >= 0 THEN nums[i + 1] ELSE nums[Len(nums) + i + 1]

\* dict: a function from the keys stored so far
EmptyDict == <<>>
DictSet(d, k, v) == [x \in (DOMAIN d) \cup {k} |-> IF x = k THEN v ELSE d[x]]

----------------------------------------------------------------------------
(* binarySearch.py *)

RECURSIVE binarySearchLoop(_, _, _, _)
binarySearchLoop(nums, target, left, right) ==
    IF ~(left <= right) THEN IntResult(-1)
    ELSE LET mid == (left + right) \div 2
         IN  IF ~InRange(nums, mid) THEN Raise("IndexError")
             ELSE IF Get(nums, mid) = target THEN IntResult(mid)
             ELSE IF Get(nums, mid) < target
                  THEN binarySearchLoop(nums, target, mid + 1, right)
                  ELSE binarySearchLoop(nums, target, left, mid - 1)

RECURSIVE binarySearchLoop_StopsEarly(_, _, _, _)
\* binarySearch with the loop condition left < right
binarySearchLoop_StopsEarly(nums, target, left, right) ==
    IF ~(left < right) THEN IntResult(-1)
    ELSE LET mid == (left + right) \div 2
         IN  IF ~InRange(nums, mid) THEN Raise("IndexError")
             ELSE IF Get(nums, mid) = target THEN IntResult(mid)
             ELSE IF Get(nums, mid) < target
                  THEN binarySearchLoop_StopsEarly(nums, target, mid + 1, right)
                  ELSE binarySearchLoop_StopsEarly(nums, target, left, mid - 1)

binarySearch_StopsEarly(nums, target) ==
    binarySearchLoop_StopsEarly(nums, target, 0, Len(nums) - 1)

\* binarySearch with right = len(nums)
binarySearch_RightIsLen(nums, target) ==
    binarySearchLoop(nums, target, 0, Len(nums))

binarySearch(nums, target) ==
    binarySearchLoop(nums, target, 0, Len(nums) - 1)

----------------------------------------------------------------------------
(* containsDuplicate.py: the definition the module finally binds *)

RECURSIVE containsDuplicateLoop(_, _, _)
containsDuplicateLoop(nums, k, seen) ==
    IF k > Len(nums) THEN [kind |-> "bool", val |-> FALSE, examined |-> k - 1]
    ELSE LET num == nums[k]
         IN  IF num \in seen THEN [kind |-> "bool", val |-> TRUE, examined |-> k]
             ELSE containsDuplicateLoop(nums, k + 1, seen \cup {num})

RECURSIVE containsDuplicateLoop_AddsFirst(_, _, _)
\* containsDuplicate with seen.add(num) before the membership test
containsDuplicateLoop_AddsFirst(nums, k, seen) ==
    IF k > Len(nums) THEN [kind |-> "bool", val |-> FALSE, examined |-> k - 1]
    ELSE LET num == nums[k]
         IN  IF num \in seen \cup {num} THEN [kind |-> "bool", val |-> TRUE, examined |-> k]
             ELSE containsDuplicateLoop_AddsFirst(nums, k + 1, seen \cup {num})

containsDuplicate_AddsFirst(nums) == containsDuplicateLoop_AddsFirst(nums, 1, {})

containsDuplicate(nums) == containsDuplicateLoop(nums, 1, {})

----------------------------------------------------------------------------
(* PatternSkeletons/HashMap.py *)

RECURSIVE HashMap_twoSumLoop(_, _, _, _)
HashMap_twoSumLoop(nums, target, i, seen) ==
    IF i >= Len(nums) THEN NoneResult
    ELSE LET num == nums[i + 1]
             complement == target - num
         IN  IF complement \in DOMAIN seen
             THEN ListResult(<<seen[complement], i>>)
             ELSE HashMap_twoSumLoop(nums, target, i + 1, DictSet(seen, num, i))

RECURSIVE HashMap_twoSumLoop_StoresFirst(_, _, _, _)
\* twoSum storing the current number before looking its complement up
HashMap_twoSumLoop_StoresFirst(nums, target, i, seen) ==
    IF i >= Len(nums) THEN NoneResult
    ELSE LET num == nums[i + 1]
             complement == target - num
             stored == DictSet(seen, num, i)
         IN  IF complement \in DOMAIN stored
             THEN ListResult(<<stored[complement], i>>)
             ELSE HashMap_twoSumLoop_StoresFirst(nums, target, i + 1, stored)

HashMap_twoSum_StoresFirst(nums, target) ==
    HashMap_twoSumLoop_StoresFirst(nums, target, 0, EmptyDict)

RECURSIVE HashMap_twoSumLoop_KeepsFirst(_, _, _, _)
\* twoSum storing a number's index only the first time the number is met
HashMap_twoSumLoop_KeepsFirst(nums, target, i, seen) ==
    IF i >= Len(nums) THEN NoneResult
    ELSE LET num == nums[i + 1]
             complement == target - num
         IN  IF complement \in DOMAIN seen
             THEN ListResult(<<seen[complement], i>>)
             ELSE HashMap_twoSumLoop_KeepsFirst(
                      nums, target, i + 1,
                      IF num \in DOMAIN seen THEN seen ELSE DictSet(seen, num, i))

HashMap_twoSum_KeepsFirst(nums, target) ==
    HashMap_twoSumLoop_KeepsFirst(nums, target, 0, EmptyDict)

HashMap_twoSum(nums, target) ==
    HashMap_twoSumLoop(nums, target, 0, EmptyDict)

\* a bool result, with the number of elements the for loop has taken from nums
Examined(b, k) == [kind |-> "bool", val |-> b, examined |-> k]

RECURSIVE contains_duplicatesLoop(_, _, _)
contains_duplicatesLoop(nums, k, seen) ==
    IF k > Len(nums) THEN Examined(FALSE, k - 1)
    ELSE LET num == nums[k]
         IN  IF num \in seen THEN Examined(TRUE, k)
             ELSE contains_duplicatesLoop(nums, k + 1, seen \cup {num})

contains_duplicates(nums) == contains_duplicatesLoop(nums, 1, {})

RECURSIVE majorityElementLoop(_, _, _)
majorityElementLoop(nums, k, seen) ==
    IF k > Len(nums) THEN NoneResult
    ELSE LET num == nums[k]
             counted == IF num \in DOMAIN seen
                        THEN DictSet(seen, num, seen[num] + 1)
                        ELSE DictSet(seen, num, 1)
         IN  IF counted[num] > Len(nums) \div 2
             THEN IntResult(num)
             ELSE majorityElementLoop(nums, k + 1, counted)

RECURSIVE majorityElementLoop_AtLeastHalf(_, _, _)
\* majorityElement with the test seen[num] >= n // 2
majorityElementLoop_AtLeastHalf(nums, k, seen) ==
    IF k > Len(nums) THEN NoneResult
    ELSE LET num == nums[k]
             counted == IF num \in DOMAIN seen
                        THEN DictSet(seen, num, seen[num] + 1)
                        ELSE DictSet(seen, num, 1)
         IN  IF counted[num] >= Len(nums) \div 2
             THEN IntResult(num)
             ELSE majorityElementLoop_AtLeastHalf(nums, k + 1, counted)

majorityElement_AtLeastHalf(nums) == majorityElementLoop_AtLeastHalf(nums, 1, EmptyDict)

majorityElement(nums) == majorityElementLoop(nums, 1, EmptyDict)

----------------------------------------------------------------------------
(* twoSum.py: the definition the module finally binds.  The lookup and the *)
(* store are dedented out of the for loop, so they run once, after it,     *)
(* with the loop variables of the last iteration and an empty dict.        *)

twoSum(nums, target) ==
    LET seen == EmptyDict
        n == Len(nums)
        i == n - 1
        num == nums[n]
        complement == target - num
    IN  IF n = 0 THEN Raise("UnboundLocalError")
        ELSE IF complement \in DOMAIN seen
             THEN ListResult(<<seen[complement], i>>)
             ELSE NoneResult

----------------------------------------------------------------------------
(* PatternSkeletons/twoPointers.py *)

RECURSIVE twoSumPointersLoop(_, _, _, _)
twoSumPointersLoop(nums, target, left, right) ==
    IF ~(left < right) THEN NoneResult
    ELSE IF ~InRange(nums, left) \/ ~InRange(nums, right) THEN Raise("IndexError")
    ELSE LET current_sum == Get(nums, left) + Get(nums, right)
         IN  IF current_sum = target THEN ListResult(<<left + 1, right + 1>>)
             ELSE IF current_sum < target
                  THEN twoSumPointersLoop(nums, target, left + 1, right)
                  ELSE twoSumPointersLoop(nums, target, left, right - 1)

RECURSIVE twoSumPointersLoop_AlwaysLeft(_, _, _, _)
\* twoSumPointers with left += 1 in the else branch too
twoSumPointersLoop_AlwaysLeft(nums, target, left, right) ==
    IF ~(left < right) THEN NoneResult
    ELSE IF ~InRange(nums, left) \/ ~InRange(nums, right) THEN Raise("IndexError")
    ELSE LET current_sum == Get(nums, left) + Get(nums, right)
         IN  IF current_sum = target THEN ListResult(<<left + 1, right + 1>>)
             ELSE twoSumPointersLoop_AlwaysLeft(nums, target, left + 1, right)

twoSumPointers_AlwaysLeft(nums, target) ==
    twoSumPointersLoop_AlwaysLeft(nums, target, 0, Len(nums) - 1)

twoSumPointers(nums, target) ==
    twoSumPointersLoop(nums, target, 0, Len(nums) - 1)

\* a str result: the sequence of its characters
StrResult(chars) == [kind |-> "str", val |-> chars]

RECURSIVE twoPointers_reverseStringLoop(_, _, _)
twoPointers_reverseStringLoop(chars, left, right) ==
    IF ~(left < right) THEN StrResult(chars)
    ELSE IF ~InRange(chars, left) \/ ~InRange(chars, right) THEN Raise("IndexError")
    ELSE twoPointers_reverseStringLoop(
             [chars EXCEPT ![left + 1] = Get(chars, right), ![right + 1] = Get(chars, left)],
             left + 1, right - 1)

RECURSIVE twoPointers_reverseStringLoop_StopsEarly(_, _, _)
\* reverseString with the loop condition left < right - 1
twoPointers_reverseStringLoop_StopsEarly(chars, left, right) ==
    IF ~(left < right - 1) THEN StrResult(chars)
    ELSE IF ~InRange(chars, left) \/ ~InRange(chars, right) THEN Raise("IndexError")
    ELSE twoPointers_reverseStringLoop_StopsEarly(
             [chars EXCEPT ![left + 1] = Get(chars, right), ![right + 1] = Get(chars, left)],
             left + 1, right - 1)

twoPointers_reverseString_StopsEarly(s) ==
    twoPointers_reverseStringLoop_StopsEarly(s, 0, Len(s) - 1)

twoPointers_reverseString(s) == twoPointers_reverseStringLoop(s, 0, Len(s) - 1)

RECURSIVE twoPointersLoop(_, _, _, _)
\* twoPointers: the definition the module finally binds
twoPointersLoop(nums, target, left, right) ==
    IF ~(left < right) THEN BoolResult(FALSE)
    ELSE IF ~InRange(nums, left) \/ ~InRange(nums, right) THEN Raise("IndexError")
    ELSE LET current_sum == Get(nums, left) + Get(nums, right)
         IN  IF current_sum = target THEN BoolResult(TRUE)
             ELSE IF current_sum < target
                  THEN twoPointersLoop(nums, target, left + 1, right)
                  ELSE twoPointersLoop(nums, target, left, right - 1)

twoPointers(nums, target) ==
    twoPointersLoop(nums, target, 0, Len(nums) - 1)

Max(a, b) == IF a >= b THEN a ELSE b

\* float("-inf") is the empty sequence, a number n is <<n>>
NegInf == <<>>
\* max(best_sum, window_sum)
MaxWithInf(best_sum, window_sum) ==
    IF best_sum = NegInf THEN <<window_sum>> ELSE <<Max(best_sum[1], window_sum)>>

\* what maxSum returns, with the windows (left, right, window_sum) it recorded
MaxSumResult(best_sum, updates) ==
    IF best_sum = NegInf
    THEN [kind |-> "float", val |-> "-inf", updates |-> updates]
    ELSE [kind |-> "int", val |-> best_sum[1], updates |-> updates]

RECURSIVE maxSumLoop(_, _, _, _, _, _, _)
maxSumLoop(nums, k, right, left, window_sum, best_sum, updates) ==
    IF right >= Len(nums) THEN MaxSumResult(best_sum, updates)
    ELSE LET added == window_sum + nums[right + 1]
         IN  IF right - left + 1 = k
             THEN IF ~InRange(nums, left)
                  THEN Raise("IndexError")
                  ELSE maxSumLoop(nums, k, right + 1, left + 1,
                                  added - Get(nums, left),
                                  MaxWithInf(best_sum, added),
                                  Append(updates, [left |-> left, right |-> right,
                                                   window_sum |-> added]))
             ELSE maxSumLoop(nums, k, right + 1, left, added, best_sum, updates)

\* maxSum with best_sum = 0 to start with
maxSum_StartsAtZero(nums, k) == maxSumLoop(nums, k, 0, 0, 0, <<0>>, <<>>)

maxSum(nums, k) == maxSumLoop(nums, k, 0, 0, 0, NegInf, <<>>)

RECURSIVE Shrink(_, _, _, _)
\* the inner while loop of longestSubarrayWithSumAtMostTarget
Shrink(nums, target, window_sum, left) ==
    IF ~(window_sum > target) THEN [ok |-> TRUE, window_sum |-> window_sum, left |-> left]
    ELSE IF ~InRange(nums, left) THEN [ok |-> FALSE, window_sum |-> window_sum, left |-> left]
    ELSE Shrink(nums, target, window_sum - Get(nums, left), left + 1)

RECURSIVE longestSubarrayLoop(_, _, _, _, _, _)
longestSubarrayLoop(nums, target, right, left, window_sum, max_length) ==
    IF right >= Len(nums) THEN IntResult(max_length)
    ELSE LET shrunk == Shrink(nums, target, window_sum + nums[right + 1], left)
         IN  IF ~shrunk.ok THEN Raise("IndexError")
             ELSE longestSubarrayLoop(nums, target, right + 1, shrunk.left,
                                      shrunk.window_sum,
                                      Max(max_length, right - shrunk.left + 1))

longestSubarrayWithSumAtMostTarget(nums, target) ==
    longestSubarrayLoop(nums, target, 0, 0, 0, 0)

\* str.isalnum() and str.lower() on the characters the model draws
UpperCase == <<"A", "B", "C", "D", "E", "F", "G", "H", "I", "J", "K", "L", "M",
               "N", "O", "P", "Q", "R", "S", "T", "U", "V", "W", "X", "Y", "Z">>
LowerCase == <<"a", "b", "c", "d", "e", "f", "g", "h", "i", "j", "k", "l", "m",
               "n", "o", "p", "q", "r", "s", "t", "u", "v", "w", "x", "y", "z">>
Digits == {"0", "1", "2", "3", "4", "5", "6", "7", "8", "9"}
Range(f) == {f[x] : x \in DOMAIN f}
isalnum(c) == c \in Range(UpperCase) \cup Range(LowerCase) \cup Digits
lower(c) ==
    IF c \in Range(UpperCase)
    THEN LowerCase[CHOOSE k \in DOMAIN UpperCase : UpperCase[k] = c]
    ELSE c

\* what a palindrome check returns, with the indices at which it has read s
Checked(b, reads) == [kind |-> "bool", val |-> b, reads |-> reads]

\* the result of an inner skip loop: the index reached (or a read out of
\* range), with the indices read so far
Index(ok, i, reads) == [ok |-> ok, idx |-> i, reads |-> reads]

RECURSIVE SkipLeft(_, _, _, _)
\* while left < right and not s[left].isalnum(): left += 1
SkipLeft(s, left, right, reads) ==
    IF ~(left < right) THEN Index(TRUE, left, reads)
    ELSE IF ~InRange(s, left) THEN Index(FALSE, left, reads)
    ELSE IF isalnum(Get(s, left)) THEN Index(TRUE, left, reads \cup {left})
    ELSE SkipLeft(s, left + 1, right, reads \cup {left})

RECURSIVE SkipRight_Unbounded(_, _, _, _)
\* the skip loop without left < right: while not s[right].isalnum(): right -= 1
SkipRight_Unbounded(s, left, right, reads) ==
    IF ~InRange(s, right) THEN Index(FALSE, right, reads)
    ELSE IF isalnum(Get(s, right)) THEN Index(TRUE, right, reads \cup {right})
    ELSE SkipRight_Unbounded(s, left, right - 1, reads \cup {right})

RECURSIVE SkipRight(_, _, _, _)
\* while left < right and not s[right].isalnum(): right -= 1
SkipRight(s, left, right, reads) ==
    IF ~(left < right) THEN Index(TRUE, right, reads)
    ELSE IF ~InRange(s, right) THEN Index(FALSE, right, reads)
    ELSE IF isalnum(Get(s, right)) THEN Index(TRUE, right, reads \cup {right})
    ELSE SkipRight(s, left, right - 1, reads \cup {right})

RECURSIVE twoPointers_isPalindromeLoop(_, _, _, _)
twoPointers_isPalindromeLoop(s, left, right, reads) ==
    IF ~(left < right) THEN Checked(TRUE, reads)
    ELSE LET l == SkipLeft(s, left, right, reads)
             r == SkipRight(s, l.idx, right, l.reads)
             compared == r.reads \cup {l.idx, r.idx}
         IN  IF ~l.ok \/ ~r.ok THEN Raise("IndexError")
             ELSE IF ~InRange(s, l.idx) \/ ~InRange(s, r.idx) THEN Raise("IndexError")
             ELSE IF lower(Get(s, l.idx)) # lower(Get(s, r.idx))
                  THEN Checked(FALSE, compared)
                  ELSE twoPointers_isPalindromeLoop(s, l.idx + 1, r.idx - 1, compared)

twoPointers_isPalindrome(s) ==
    twoPointers_isPalindromeLoop(s, 0, Len(s) - 1, {})

----------------------------------------------------------------------------
(* isPalindrome.py: the definition the module finally binds *)

RECURSIVE isPalindromeLoop(_, _, _, _)
isPalindromeLoop(s, left, right, reads) ==
    IF ~(left < right) THEN Checked(TRUE, reads)
    ELSE IF ~InRange(s, left) THEN Raise("IndexError")
    ELSE IF ~isalnum(Get(s, left))
         THEN isPalindromeLoop(s, left + 1, right, reads \cup {left})
    ELSE IF ~InRange(s, right) THEN Raise("IndexError")
    ELSE IF ~isalnum(Get(s, right))
         THEN isPalindromeLoop(s, left, right - 1, reads \cup {left, right})
    ELSE IF lower(Get(s, left)) # lower(Get(s, right))
         THEN Checked(FALSE, reads \cup {left, right})
    ELSE isPalindromeLoop(s, left + 1, right - 1, reads \cup {left, right})

RECURSIVE isPalindromeLoop_CaseSensitive(_, _, _, _)
\* isPalindrome comparing the characters without lower()
isPalindromeLoop_CaseSensitive(s, left, right, reads) ==
    IF ~(left < right) THEN Checked(TRUE, reads)
    ELSE IF ~InRange(s, left) THEN Raise("IndexError")
    ELSE IF ~isalnum(Get(s, left))
         THEN isPalindromeLoop_CaseSensitive(s, left + 1, right, reads \cup {left})
    ELSE IF ~InRange(s, right) THEN Raise("IndexError")
    ELSE IF ~isalnum(Get(s, right))
         THEN isPalindromeLoop_CaseSensitive(s, left, right - 1, reads \cup {left, right})
    ELSE IF Get(s, left) # Get(s, right)
         THEN Checked(FALSE, reads \cup {left, right})
    ELSE isPalindromeLoop_CaseSensitive(s, left + 1, right - 1, reads \cup {left, right})

isPalindrome_CaseSensitive(s) == isPalindromeLoop_CaseSensitive(s, 0, Len(s) - 1, {})

isPalindrome(s) == isPalindromeLoop(s, 0, Len(s) - 1, {})

----------------------------------------------------------------------------
(* PatternSkeletons/Stacks.py and validParenthesis(isValid).py: the        *)
(* definitions the modules finally bind *)

Closing == {")", "}", "]"}
mapping(c) == CASE c = ")" -> "(" [] c = "}" -> "{" [] c = "]" -> "["

\* list.pop() / list.append(x) on a stack kept as a sequence, top last
Top(stack) == stack[Len(stack)]
Pop(stack) == SubSeq(stack, 1, Len(stack) - 1)

\* what isValid returns, with the stack as it stood after each character the
\* loop finished (stacks[k]: after s[k])
Validity(b, stacks) == [kind |-> "bool", val |-> b, stacks |-> stacks]

RECURSIVE Stacks_isValidLoop(_, _, _, _)
Stacks_isValidLoop(s, k, stack, stacks) ==
    IF k > Len(s) THEN Validity(stack = <<>>, stacks)
    ELSE LET ch == s[k]
         IN  IF ch \in Closing
             THEN IF stack = <<>> THEN Validity(FALSE, stacks)
                  ELSE IF Top(stack) # mapping(ch) THEN Validity(FALSE, stacks)
                  ELSE Stacks_isValidLoop(s, k + 1, Pop(stack),
                                          Append(stacks, Pop(stack)))
             ELSE Stacks_isValidLoop(s, k + 1, Append(stack, ch),
                                     Append(stacks, Append(stack, ch)))

RECURSIVE Stacks_isValidLoop_OpenersOnly(_, _, _, _)
\* isValid pushing only '(', '[' and '{' and passing over any other character
Stacks_isValidLoop_OpenersOnly(s, k, stack, stacks) ==
    IF k > Len(s) THEN Validity(stack = <<>>, stacks)
    ELSE LET ch == s[k]
         IN  IF ch \in Closing
             THEN IF stack = <<>> THEN Validity(FALSE, stacks)
                  ELSE IF Top(stack) # mapping(ch) THEN Validity(FALSE, stacks)
                  ELSE Stacks_isValidLoop_OpenersOnly(s, k + 1, Pop(stack),
                                                      Append(stacks, Pop(stack)))
             ELSE IF ch \in {"(", "[", "{"}
             THEN Stacks_isValidLoop_OpenersOnly(s, k + 1, Append(stack, ch),
                                                 Append(stacks, Append(stack, ch)))
             ELSE Stacks_isValidLoop_OpenersOnly(s, k + 1, stack, Append(stacks, stack))

Stacks_isValid_OpenersOnly(s) == Stacks_isValidLoop_OpenersOnly(s, 1, <<>>, <<>>)

Stacks_isValid(s) == Stacks_isValidLoop(s, 1, <<>>, <<>>)

RECURSIVE isValidLoop(_, _, _, _)
isValidLoop(s, k, stack, stacks) ==
    IF k > Len(s) THEN Validity(stack = <<>>, stacks)
    ELSE LET char == s[k]
         IN  IF char \in Closing
             THEN IF stack = <<>> \/ Top(stack) # mapping(char)
                  THEN Validity(FALSE, stacks)
                  ELSE isValidLoop(s, k + 1, Pop(stack), Append(stacks, Pop(stack)))
             ELSE isValidLoop(s, k + 1, Append(stack, char),
                              Append(stacks, Append(stack, char)))

RECURSIVE isValidLoop_AnyOpener(_, _, _, _)
\* isValid popping without comparing the popped opener to mapping[char]
isValidLoop_AnyOpener(s, k, stack, stacks) ==
    IF k > Len(s) THEN Validity(stack = <<>>, stacks)
    ELSE LET char == s[k]
         IN  IF char \in Closing
             THEN IF stack = <<>>
                  THEN Validity(FALSE, stacks)
                  ELSE isValidLoop_AnyOpener(s, k + 1, Pop(stack),
                                             Append(stacks, Pop(stack)))
             ELSE isValidLoop_AnyOpener(s, k + 1, Append(stack, char),
                                        Append(stacks, Append(stack, char)))

isValid_AnyOpener(s) == isValidLoop_AnyOpener(s, 1, <<>>, <<>>)

isValid(s) == isValidLoop(s, 1, <<>>, <<>>)

RECURSIVE Stacks_reverseStringPops(_, _, _, _)
\* Stacks.py reverseString (last definition): for ch in s: result.append(stack.pop())
Stacks_reverseStringPops(s, k, stack, popped) ==
    IF k > Len(s) THEN StrResult(popped)
    ELSE IF stack = <<>> THEN Raise("IndexError")
    ELSE Stacks_reverseStringPops(s, k + 1, Pop(stack), Append(popped, Top(stack)))

RECURSIVE Stacks_reverseStringPushes(_, _, _)
\* for ch in s: stack.append(ch)
Stacks_reverseStringPushes(s, k, stack) ==
    IF k > Len(s) THEN stack
    ELSE Stacks_reverseStringPushes(s, k + 1, Append(stack, s[k]))

Stacks_reverseString(s) ==
    Stacks_reverseStringPops(s, 1, Stacks_reverseStringPushes(s, 1, <<>>), <<>>)

----------------------------------------------------------------------------
(* PatternSkeletons/HashMap.py: lengthOfLongestSubstring *)

RECURSIVE lengthOfLongestSubstringLoop(_, _, _, _, _)
lengthOfLongestSubstringLoop(s, right, last_seen, left, max_len) ==
    IF right >= Len(s) THEN IntResult(max_len)
    ELSE LET ch == s[right + 1]
             left2 == IF ch \in DOMAIN last_seen /\ last_seen[ch] >= left
                      THEN last_seen[ch] + 1
                      ELSE left
         IN  lengthOfLongestSubstringLoop(s, right + 1, DictSet(last_seen, ch, right),
                                          left2, Max(max_len, right - left2 + 1))

RECURSIVE lengthOfLongestSubstringLoop_NoWindowTest(_, _, _, _, _)
\* lengthOfLongestSubstring without the test last_seen[ch] >= left
lengthOfLongestSubstringLoop_NoWindowTest(s, right, last_seen, left, max_len) ==
    IF right >= Len(s) THEN IntResult(max_len)
    ELSE LET ch == s[right + 1]
             left2 == IF ch \in DOMAIN last_seen THEN last_seen[ch] + 1 ELSE left
         IN  lengthOfLongestSubstringLoop_NoWindowTest(
                 s, right + 1, DictSet(last_seen, ch, right), left2,
                 Max(max_len, right - left2 + 1))

lengthOfLongestSubstring_NoWindowTest(s) ==
    lengthOfLongestSubstringLoop_NoWindowTest(s, 0, EmptyDict, 0, 0)

lengthOfLongestSubstring(s) ==
    lengthOfLongestSubstringLoop(s, 0, EmptyDict, 0, 0)

----------------------------------------------------------------------------
(* Linked lists: nodes are numbered from 1, None is 0; a heap maps each     *)
(* node to its val and to its next. *)

\* longest linked list passed to mergeTwoLists
MaxListLen == 3
\* number of ListNode objects on the heap passed to hasCycle
MaxNodes == 4

None == 0

\* class ListNode: ListNode(val, next) allocates the next free node
ListNode(heap, v, nxt) ==
    LET id == Cardinality(DOMAIN heap.val) + 1
    IN  [val |-> [x \in (DOMAIN heap.val) \cup {id} |-> IF x = id THEN v ELSE heap.val[x]],
         next |-> [x \in (DOMAIN heap.next) \cup {id} |-> IF x = id THEN nxt ELSE heap.next[x]]]

(* mergeTwoLists.py *)

RECURSIVE mergeTwoListsLoop(_, _, _, _)
mergeTwoListsLoop(heap, l1, l2, tail) ==
    IF l1 # None /\ l2 # None
    THEN IF heap.val[l1] <= heap.val[l2]
         THEN LET linked == [heap EXCEPT !.next[tail] = l1]
              IN  mergeTwoListsLoop(linked, linked.next[l1], l2, linked.next[tail])
         ELSE LET linked == [heap EXCEPT !.next[tail] = l2]
              IN  mergeTwoListsLoop(linked, l1, linked.next[l2], linked.next[tail])
    ELSE [heap EXCEPT !.next[tail] = IF l1 # None THEN l1 ELSE l2]

RECURSIVE mergeTwoListsLoop_DropsRest(_, _, _, _)
\* mergeTwoLists ending with tail.next = l1, whichever list is exhausted
mergeTwoListsLoop_DropsRest(heap, l1, l2, tail) ==
    IF l1 # None /\ l2 # None
    THEN IF heap.val[l1] <= heap.val[l2]
         THEN LET linked == [heap EXCEPT !.next[tail] = l1]
              IN  mergeTwoListsLoop_DropsRest(linked, linked.next[l1], l2, linked.next[tail])
         ELSE LET linked == [heap EXCEPT !.next[tail] = l2]
              IN  mergeTwoListsLoop_DropsRest(linked, l1, linked.next[l2], linked.next[tail])
    ELSE [heap EXCEPT !.next[tail] = l1]

mergeTwoLists_DropsRest(heap, l1, l2) ==
    LET withDummy == ListNode(heap, 0, None)
        dummy == Cardinality(DOMAIN heap.val) + 1
        merged == mergeTwoListsLoop_DropsRest(withDummy, l1, l2, dummy)
    IN  [kind |-> "node", val |-> merged.next[dummy], heap |-> merged]

RECURSIVE mergeTwoListsLoop_TiesFromL2(_, _, _, _)
\* mergeTwoLists with the comparison l1.val < l2.val
mergeTwoListsLoop_TiesFromL2(heap, l1, l2, tail) ==
    IF l1 # None /\ l2 # None
    THEN IF heap.val[l1] < heap.val[l2]
         THEN LET linked == [heap EXCEPT !.next[tail] = l1]
              IN  mergeTwoListsLoop_TiesFromL2(linked, linked.next[l1], l2, linked.next[tail])
         ELSE LET linked == [heap EXCEPT !.next[tail] = l2]
              IN  mergeTwoListsLoop_TiesFromL2(linked, l1, linked.next[l2], linked.next[tail])
    ELSE [heap EXCEPT !.next[tail] = IF l1 # None THEN l1 ELSE l2]

mergeTwoLists_TiesFromL2(heap, l1, l2) ==
    LET withDummy == ListNode(heap, 0, None)
        dummy == Cardinality(DOMAIN heap.val) + 1
        merged == mergeTwoListsLoop_TiesFromL2(withDummy, l1, l2, dummy)
    IN  [kind |-> "node", val |-> merged.next[dummy], heap |-> merged]

mergeTwoLists(heap, l1, l2) ==
    LET withDummy == ListNode(heap, 0, None)
        dummy == Cardinality(DOMAIN heap.val) + 1
        merged == mergeTwoListsLoop(withDummy, l1, l2, dummy)
    IN  [kind |-> "node", val |-> merged.next[dummy], heap |-> merged]

(* hasCycle.py *)

RECURSIVE hasCycleLoop(_, _, _)
hasCycleLoop(next, slow, fast) ==
    IF fast = None THEN BoolResult(FALSE)
    ELSE IF next[fast] = None THEN BoolResult(FALSE)
    ELSE IF slow = None THEN Raise("AttributeError")
    ELSE LET slow2 == next[slow]
             fast2 == next[next[fast]]
         IN  IF slow2 = fast2 THEN BoolResult(TRUE)
             ELSE hasCycleLoop(next, slow2, fast2)

RECURSIVE hasCycleLoop_OneStepFast(_, _, _)
\* hasCycle advancing fast by fast.next only, like slow
hasCycleLoop_OneStepFast(next, slow, fast) ==
    IF fast = None THEN BoolResult(FALSE)
    ELSE IF next[fast] = None THEN BoolResult(FALSE)
    ELSE IF slow = None THEN Raise("AttributeError")
    ELSE LET slow2 == next[slow]
             fast2 == next[fast]
         IN  IF slow2 = fast2 THEN BoolResult(TRUE)
             ELSE hasCycleLoop_OneStepFast(next, slow2, fast2)

hasCycle_OneStepFast(next, head) == hasCycleLoop_OneStepFast(next, head, head)

hasCycle(next, head) == hasCycleLoop(next, head, head)

----------------------------------------------------------------------------
(* Inputs. *)

\* longest bracket string that is enumerated
MaxBrLen == 4
\* longest string enumerated for lengthOfLongestSubstring
MaxStrLen == 5
\* longest string enumerated for the palindrome checks
MaxPalLen == 4

Values == -1..MaxVal
NonNegValues == 0..MaxVal
Targets == -2..(2 * MaxVal + 1)
\* the example of twoSum.py's problem statement
ExampleNums == <<2, 7, 11, 15>>
ExampleTarget == 9
IntSeqs == SeqsUpTo(Values, MaxLen)
IntInputs ==
    {[nums |-> n, target |-> t] : n \in IntSeqs, t \in Targets}
        \cup {[nums |-> ExampleNums, target |-> ExampleTarget]}
NonNegInputs ==
    {[nums |-> n, target |-> t] : n \in SeqsUpTo(NonNegValues, MaxLen), t \in Targets}

IntOps == {"binarySearch", "HashMap_twoSum", "twoSum", "twoSumPointers", "twoPointers"}

MaxSumInputs ==
    {[nums |-> n, k |-> k] : n \in IntSeqs, k \in 0..(MaxLen + 1)}

NumsInputs == {[nums |-> n] : n \in IntSeqs}

DuplicateOps == {"containsDuplicate", "contains_duplicates"}

BracketChars == {"(", ")", "[", "]", "{", "}"}
\* a character that is no bracket
OtherChars == {"a"}
BracketInputs ==
    {[s |-> x] : x \in SeqsUpTo(BracketChars \cup OtherChars, MaxBrLen)
                        \cup {<<"(", ")", "[", "]", "{", "}">>}}
BracketOps == {"Stacks_isValid", "isValid"}

SubstringChars == {"a", "b", "c"}
SubstringInputs ==
    {[s |-> x] : x \in SeqsUpTo(SubstringChars, MaxStrLen)
                        \cup {<<"a", "b", "c", "a", "b", "c", "b", "b">>,
                              <<"b", "b", "b", "b", "b">>}}

ReverseOps == {"twoPointers_reverseString", "Stacks_reverseString"}

PalindromeChars == {"a", "A", "b", "1", ",", " "}
\* "A man, a plan, a canal: Panama" and "race a car"
Panama == <<"A", " ", "m", "a", "n", ",", " ", "a", " ", "p", "l", "a", "n", ",",
            " ", "a", " ", "c", "a", "n", "a", "l", ":", " ", "P", "a", "n", "a",
            "m", "a">>
RaceACar == <<"r", "a", "c", "e", " ", "a", " ", "c", "a", "r">>
PalindromeInputs ==
    {[s |-> x] : x \in SeqsUpTo(PalindromeChars, MaxPalLen) \cup {Panama, RaceACar}}
PalindromeOps == {"isPalindrome", "twoPointers_isPalindrome"}

\* the heap holding the list of vals a (nodes 1..Len(a)) followed by the list
\* of vals b, each node linked to its successor and the last to None
TwoLists(a, b) ==
    LET n == Len(a)
        m == Len(b)
    IN  [heap |-> [val |-> [x \in 1..(n + m) |-> IF x <= n THEN a[x] ELSE b[x - n]],
                   next |-> [x \in 1..(n + m) |-> IF x = n \/ x = n + m THEN None ELSE x + 1]],
         l1 |-> IF n = 0 THEN None ELSE 1,
         l2 |-> IF m = 0 THEN None ELSE n + 1]
NonDecreasing(a) == \A k \in 1..(Len(a) - 1) : a[k] <= a[k + 1]
SortedSeqs == {a \in SeqsUpTo(Values, MaxListLen) : NonDecreasing(a)}
MergeInputs ==
    {TwoLists(a, b) : a, b \in SortedSeqs} \cup {TwoLists(<<1, 2, 4>>, <<1, 3, 4>>)}

CycleInputs ==
    {[next |-> nx, head |-> h] : nx \in [1..MaxNodes -> 0..MaxNodes], h \in 0..MaxNodes}

----------------------------------------------------------------------------
(* The calls. *)

Init ==
    /\ pc = "call"
    /\ result = Pending
    /\ \/ op \in IntOps /\ args \in IntInputs
       \/ op = "maxSum" /\ args \in MaxSumInputs
       \/ op = "majorityElement" /\ args \in NumsInputs
       \/ op \in DuplicateOps /\ args \in NumsInputs
       \/ op = "longestSubarrayWithSumAtMostTarget" /\ args \in NonNegInputs
       \/ op \in BracketOps /\ args \in BracketInputs
       \/ op = "lengthOfLongestSubstring" /\ args \in SubstringInputs
       \/ op \in ReverseOps /\ args \in SubstringInputs
       \/ op \in PalindromeOps /\ args \in PalindromeInputs
       \/ op = "mergeTwoLists" /\ args \in MergeInputs
       \/ op = "hasCycle" /\ args \in CycleInputs

Call(name, value) ==
    /\ pc = "call"
    /\ op = name
    /\ result' = value
    /\ pc' = "done"
    /\ UNCHANGED <<op, args>>

Call_binarySearch == Call("binarySearch", binarySearch(args.nums, args.target))
Call_HashMap_twoSum == Call("HashMap_twoSum", HashMap_twoSum(args.nums, args.target))
Call_twoSum == Call("twoSum", twoSum(args.nums, args.target))
Call_twoSumPointers == Call("twoSumPointers", twoSumPointers(args.nums, args.target))
Call_twoPointers == Call("twoPointers", twoPointers(args.nums, args.target))
Call_maxSum == Call("maxSum", maxSum(args.nums, args.k))
Call_majorityElement == Call("majorityElement", majorityElement(args.nums))
Call_containsDuplicate == Call("containsDuplicate", containsDuplicate(args.nums))
Call_contains_duplicates == Call("contains_duplicates", contains_duplicates(args.nums))
Call_longestSubarrayWithSumAtMostTarget ==
    Call("longestSubarrayWithSumAtMostTarget",
         longestSubarrayWithSumAtMostTarget(args.nums, args.target))
Call_Stacks_isValid == Call("Stacks_isValid", Stacks_isValid(args.s))
Call_isValid == Call("isValid", isValid(args.s))
Call_lengthOfLongestSubstring ==
    Call("lengthOfLongestSubstring", lengthOfLongestSubstring(args.s))
Call_isPalindrome == Call("isPalindrome", isPalindrome(args.s))
Call_twoPointers_isPalindrome ==
    Call("twoPointers_isPalindrome", twoPointers_isPalindrome(args.s))
Call_twoPointers_reverseString ==
    Call("twoPointers_reverseString", twoPointers_reverseString(args.s))
Call_Stacks_reverseString ==
    Call("Stacks_reverseString", Stacks_reverseString(args.s))

\* a second call, on the string the first call returned
CallAgain(name, value) ==
    /\ pc = "done"
    /\ op = name
    /\ result.kind = "str"
    /\ result' = value
    /\ pc' = "twice"
    /\ UNCHANGED <<op, args>>

Again_twoPointers_reverseString ==
    CallAgain("twoPointers_reverseString", twoPointers_reverseString(result.val))
Again_Stacks_reverseString ==
    CallAgain("Stacks_reverseString", Stacks_reverseString(result.val))

Call_mergeTwoLists == Call("mergeTwoLists", mergeTwoLists(args.heap, args.l1, args.l2))
Call_hasCycle == Call("hasCycle", hasCycle(args.next, args.head))

Next ==
    \/ Call_binarySearch
    \/ Call_HashMap_twoSum
    \/ Call_twoSum
    \/ Call_twoSumPointers
    \/ Call_twoPointers
    \/ Call_maxSum
    \/ Call_majorityElement
    \/ Call_containsDuplicate
    \/ Call_contains_duplicates
    \/ Call_longestSubarrayWithSumAtMostTarget
    \/ Call_Stacks_isValid
    \/ Call_isValid
    \/ Call_lengthOfLongestSubstring
    \/ Call_isPalindrome
    \/ Call_twoPointers_isPalindrome
    \/ Call_twoPointers_reverseString
    \/ Call_Stacks_reverseString
    \/ Again_twoPointers_reverseString
    \/ Again_Stacks_reverseString
    \/ Call_mergeTwoLists
    \/ Call_hasCycle

Spec == Init /\ [][Next]_vars

Done(name) == pc = "done" /\ op = name

----------------------------------------------------------------------------
(* hasCycle.py, one loop iteration per step: pc is "call" before the call,  *)
(* "loop" at the head of the while loop and "done" after the return; while  *)
(* looping, result holds the local variables. *)

Locals(slow, fast, steps) ==
    [kind |-> "locals", slow |-> slow, fast |-> fast, steps |-> steps]
Returned(b, slow, fast, steps) ==
    [kind |-> "bool", val |-> b, slow |-> slow, fast |-> fast, steps |-> steps]

\* the loop condition with only its first conjunct
hasCycle_Test_FastOnly(next, fast) == fast # None

\* while fast and fast.next
hasCycle_Test(next, fast) == fast # None /\ next[fast] # None

InitHasCycle ==
    /\ pc = "call"
    /\ op = "hasCycle"
    /\ args \in CycleInputs
    /\ result = Pending

hasCycle_Enter ==
    /\ pc = "call"
    /\ pc' = "loop"
    /\ result' = Locals(args.head, args.head, 0)
    /\ UNCHANGED <<op, args>>

hasCycle_Step ==
    /\ pc = "loop"
    /\ hasCycle_Test(args.next, result.fast)
    /\ IF result.slow = None \/ result.fast = None
       THEN /\ result' = Raise("AttributeError")
            /\ pc' = "done"
       ELSE IF args.next[result.fast] = None
       THEN /\ result' = Raise("AttributeError")
            /\ pc' = "done"
       ELSE LET slow == args.next[result.slow]
                fast == args.next[args.next[result.fast]]
            IN  IF slow = fast
                THEN /\ result' = Returned(TRUE, slow, fast, result.steps + 1)
                     /\ pc' = "done"
                ELSE /\ result' = Locals(slow, fast, result.steps + 1)
                     /\ pc' = "loop"
    /\ UNCHANGED <<op, args>>

hasCycle_Exit ==
    /\ pc = "loop"
    /\ ~hasCycle_Test(args.next, result.fast)
    /\ result' = Returned(FALSE, result.slow, result.fast, result.steps)
    /\ pc' = "done"
    /\ UNCHANGED <<op, args>>

NextHasCycle ==
    \/ hasCycle_Enter
    \/ hasCycle_Step
    \/ hasCycle_Exit

\* a call, once started, keeps running: nothing else is scheduled
SpecHasCycle == InitHasCycle /\ [][NextHasCycle]_vars /\ WF_vars(NextHasCycle)

----------------------------------------------------------------------------
(* Reference notions the properties are stated with. *)

\* the pairs of distinct positions (0-based, i < j) whose values sum to target
Pairs(nums, target) ==
    {p \in (0..(Len(nums) - 1)) \X (0..(Len(nums) - 1)) :
        p[1] < p[2] /\ nums[p[1] + 1] + nums[p[2] + 1] = target}
Elements(nums) == {nums[k] : k \in DOMAIN nums}
StrictlyIncreasing(a) == \A k \in 1..(Len(a) - 1) : a[k] < a[k + 1]
Count(a, v) == Cardinality({k \in DOMAIN a : a[k] = v})

RECURSIVE SumOf(_, _, _)
\* nums[i] + ... + nums[j], 0-based and inclusive
SumOf(nums, i, j) == IF i > j THEN 0 ELSE nums[i + 1] + SumOf(nums, i + 1, j)

\* the length of the longest contiguous run whose sum is at most target
LongestRunAtMost(nums, target) ==
    LET lens == {0} \cup {j - i + 1 : <<i, j>> \in
                    {q \in (0..(Len(nums) - 1)) \X (0..(Len(nums) - 1)) :
                        q[1] <= q[2] /\ SumOf(nums, q[1], q[2]) <= target}}
    IN  CHOOSE m \in lens : \A x \in lens : x <= m

Opening(c) == c \in {"(", "[", "{"}
Matches(o, c) == <<o, c>> \in {<<"(", ")">>, <<"[", "]">>, <<"{", "}">>}

RECURSIVE WellNested(_)
\* the grammar  W ::= empty | o W c W  with o, c a matching pair
WellNested(s) ==
    \/ s = <<>>
    \/ /\ Len(s) >= 2
       /\ Opening(s[1])
       /\ \E k \in 2..Len(s) :
            /\ Matches(s[1], s[k])
            /\ WellNested(SubSeq(s, 2, k - 1))
            /\ WellNested(SubSeq(s, k + 1, Len(s)))

\* the length of the longest substring of s with no character twice
LongestDistinct(s) ==
    LET lens == {0} \cup {q[2] - q[1] + 1 : q \in
                    {q \in (1..Len(s)) \X (1..Len(s)) :
                        /\ q[1] <= q[2]
                        /\ \A a, b \in q[1]..q[2] : a # b => s[a] # s[b]}}
    IN  CHOOSE m \in lens : \A x \in lens : x <= m

Reverse(a) == [k \in 1..Len(a) |-> a[Len(a) + 1 - k]]
\* the alphanumeric characters of s, lower-cased, the others removed
Normalized(s) ==
    LET kept == SelectSeq(s, isalnum)
    IN  [k \in 1..Len(kept) |-> lower(kept[k])]

RECURSIVE ListVals(_, _, _)
\* the vals met following next from node, for at most fuel nodes
ListVals(heap, node, fuel) ==
    IF node = None \/ fuel = 0 THEN <<>>
    ELSE <<heap.val[node]>> \o ListVals(heap, heap.next[node], fuel - 1)

RECURSIVE ReachesEnd(_, _, _)
\* following next from node reaches None within fuel steps
ReachesEnd(next, node, fuel) ==
    IF node = None THEN TRUE
    ELSE IF fuel = 0 THEN FALSE
    ELSE ReachesEnd(next, next[node], fuel - 1)
Acyclic(next, head) == ReachesEnd(next, head, Cardinality(DOMAIN next))

----------------------------------------------------------------------------
(* The claims. *)

\* C1: the twoSum that twoSum.py finally binds returns, whenever exactly one
\* pair of distinct positions sums to target, the indices [i, j] of that pair
\* with i < j ([0, 1] for nums = [2, 7, 11, 15], target = 9).
C1_twoSumReturnsThePair ==
    (Done("twoSum") /\ Cardinality(Pairs(args.nums, args.target)) = 1)
        => /\ result.kind = "list"
           /\ <<result.val[1], result.val[2]>> \in Pairs(args.nums, args.target)

\* C2: twoSum of HashMap.py returns, whenever exactly one pair of distinct
\* positions sums to target, [i, j] with 0 <= i < j < len(nums) and
\* nums[i] + nums[j] = target.
C2_HashMapTwoSumReturnsThePair ==
    (Done("HashMap_twoSum") /\ Cardinality(Pairs(args.nums, args.target)) = 1)
        => /\ result.kind = "list"
           /\ Len(result.val) = 2
           /\ <<result.val[1], result.val[2]>> \in Pairs(args.nums, args.target)

C2_Witness ==
    /\ Done("HashMap_twoSum")
    /\ Cardinality(Pairs(args.nums, args.target)) = 1
    /\ Len(args.nums) >= 3
    /\ result.kind = "list"
    /\ result.val[1] >= 1

\* C3: for non-negative nums and every integer target (negative ones too),
\* longestSubarrayWithSumAtMostTarget returns the length of the longest
\* contiguous run whose sum is at most target (0 when there is none) and
\* never reads nums outside 0..len(nums)-1.
C3_LongestRunForEveryTarget ==
    Done("longestSubarrayWithSumAtMostTarget")
        => /\ result.kind = "int"
           /\ result.val = LongestRunAtMost(args.nums, args.target)

\* What the code does do: the result above for every target >= 0, and an
\* IndexError for every negative target on a non-empty nums.
LongestRunForNonNegativeTarget ==
    Done("longestSubarrayWithSumAtMostTarget")
        => IF args.target >= 0 \/ args.nums = <<>>
           THEN /\ result.kind = "int"
                /\ result.val = LongestRunAtMost(args.nums, args.target)
           ELSE result = Raise("IndexError")

\* C4: on strings over the six bracket characters, isValid (Stacks.py and
\* validParenthesis(isValid).py, as finally bound) returns True exactly when
\* the string is well nested.
C4_isValidIffWellNested ==
    (pc = "done" /\ op \in BracketOps)
        => /\ result.kind = "bool"
           /\ result.val = WellNested(args.s)

C4_Witness ==
    /\ Done("isValid")
    /\ args.s = <<"(", ")", "[", "]", "{", "}">>
    /\ result.val = TRUE

\* C5: on a strictly increasing nums, binarySearch returns the index of
\* target when target occurs and -1 when it does not (always -1 on []).
C5_binarySearchFinds ==
    (Done("binarySearch") /\ StrictlyIncreasing(args.nums))
        => /\ result.kind = "int"
           /\ IF args.target \in Elements(args.nums)
              THEN /\ result.val \in 0..(Len(args.nums) - 1)
                   /\ args.nums[result.val + 1] = args.target
              ELSE result.val = -1

C5_Witness ==
    /\ Done("binarySearch")
    /\ StrictlyIncreasing(args.nums)
    /\ Len(args.nums) >= 3
    /\ args.nums[Len(args.nums)] = args.target
    /\ result = IntResult(Len(args.nums) - 1)

\* C6: lengthOfLongestSubstring returns the maximum length of a substring of
\* s in which no character occurs twice.
C6_LongestSubstringWithoutRepeat ==
    Done("lengthOfLongestSubstring")
        => /\ result.kind = "int"
           /\ result.val = LongestDistinct(args.s)

C6_Witness ==
    /\ Done("lengthOfLongestSubstring")
    /\ args.s = <<"a", "b", "c", "a", "b", "c", "b", "b">>
    /\ result = IntResult(3)

\* C7: the normalized isPalindrome (isPalindrome.py and twoPointers.py)
\* returns True exactly when the lower-cased alphanumeric characters of s
\* read the same forwards and backwards.
C7_isPalindromeIffNormalizedPalindrome ==
    (pc = "done" /\ op \in PalindromeOps)
        => /\ result.kind = "bool"
           /\ result.val = (Normalized(args.s) = Reverse(Normalized(args.s)))

C7_Witness ==
    /\ Done("isPalindrome")
    /\ args.s = Panama
    /\ result.val = TRUE

\* C8: on two sorted acyclic lists, mergeTwoLists returns a sorted list whose
\* values are, with multiplicity, those of the two inputs.
C8_MergeIsSortedUnion ==
    Done("mergeTwoLists")
        => LET n == Cardinality(DOMAIN args.heap.val)
               a == ListVals(args.heap, args.l1, n)
               b == ListVals(args.heap, args.l2, n)
               out == ListVals(result.heap, result.val, n + 2)
           IN  /\ result.kind = "node"
               /\ NonDecreasing(out)
               /\ Len(out) = Len(a) + Len(b)
               /\ \A v \in Elements(a) \cup Elements(b) \cup Elements(out) :
                    Count(out, v) = Count(a, v) + Count(b, v)

C8_Witness ==
    /\ Done("mergeTwoLists")
    /\ ListVals(args.heap, args.l1, 3) = <<1, 2, 4>>
    /\ ListVals(args.heap, args.l2, 3) = <<1, 3, 4>>
    /\ ListVals(result.heap, result.val, 7) = <<1, 1, 2, 3, 4, 4>>

\* C9: hasCycle returns True exactly when the list from head contains a
\* cycle and False exactly when following next from head reaches the end.
C9_hasCycleIffCyclic ==
    Done("hasCycle")
        => /\ result.kind = "bool"
           /\ result.val = ~Acyclic(args.next, args.head)

C9_Witness ==
    /\ Done("hasCycle")
    /\ args.head # None
    /\ args.next[args.head] # args.head
    /\ ~Acyclic(args.next, args.head)
    /\ result.val = TRUE

\* C10: no answer is signalled by a sentinel, never by an exception:
\* binarySearch returns -1 when target is absent, twoSum (HashMap.py) and
\* twoSumPointers return None when no pair sums to target, and none raises.
C10_SentinelNotException ==
    /\ Done("binarySearch")
        => /\ result.kind # "raise"
           /\ args.target \notin Elements(args.nums) => result = IntResult(-1)
    /\ (pc = "done" /\ op \in {"HashMap_twoSum", "twoSumPointers"})
        => /\ result.kind # "raise"
           /\ Pairs(args.nums, args.target) = {} => result = NoneResult

C10_Witness ==
    /\ Done("twoSumPointers")
    /\ Len(args.nums) >= 3
    /\ Pairs(args.nums, args.target) = {}
    /\ result = NoneResult

\* C11: on a non-decreasing nums, twoSumPointers returns 1-indexed positions
\* [l+1, r+1] with l < r and nums[l] + nums[r] = target whenever some pair
\* of distinct positions sums to target, and twoPointers returns True
\* exactly in those cases.
C11_SortedTwoSumNeverMisses ==
    /\ (Done("twoSumPointers") /\ NonDecreasing(args.nums)
            /\ Pairs(args.nums, args.target) # {})
        => /\ result.kind = "list"
           /\ Len(result.val) = 2
           /\ <<result.val[1] - 1, result.val[2] - 1>> \in Pairs(args.nums, args.target)
    /\ (Done("twoPointers") /\ NonDecreasing(args.nums))
        => /\ result.kind = "bool"
           /\ result.val = (Pairs(args.nums, args.target) # {})

C11_Witness ==
    /\ Done("twoSumPointers")
    /\ NonDecreasing(args.nums)
    /\ Len(args.nums) >= 4
    /\ result.kind = "list"
    /\ result.val[1] >= 2
    /\ result.val[2] < Len(args.nums)

\* the sums of the k consecutive elements starting at each position
WindowSums(nums, k) == {SumOf(nums, i, i + k - 1) : i \in 0..(Len(nums) - k)}

\* C12: for every integer nums and 1 <= k <= len(nums), maxSum returns the
\* maximum over all start positions of the sum of the k consecutive elements
\* starting there, and every window sum it records is the sum of exactly k
\* elements.
C12_maxSumIsBestWindow ==
    (Done("maxSum") /\ 1 <= args.k /\ args.k <= Len(args.nums))
        => /\ result.kind = "int"
           /\ result.val \in WindowSums(args.nums, args.k)
           /\ \A x \in WindowSums(args.nums, args.k) : x <= result.val
           /\ Len(result.updates) = Len(args.nums) - args.k + 1
           /\ \A u \in DOMAIN result.updates :
                LET w == result.updates[u]
                IN  /\ w.left = u - 1
                    /\ w.right - w.left + 1 = args.k
                    /\ w.window_sum = SumOf(args.nums, w.left, w.right)

C12_Witness ==
    /\ Done("maxSum")
    /\ args.k = 2
    /\ Len(args.nums) >= 4
    /\ \A x \in Elements(args.nums) : x < 0
    /\ result = MaxSumResult(<<-2>>, result.updates)

\* the values occurring more than len(nums)/2 times in nums
Majorities(nums) == {v \in Elements(nums) : 2 * Count(nums, v) > Len(nums)}

\* C13: majorityElement returns v exactly when v occurs more than n/2 times
\* in the whole sequence, for odd and even n, and returns None when no value
\* does.
C13_majorityElementIsMajority ==
    Done("majorityElement")
        => IF Majorities(args.nums) # {}
           THEN /\ result.kind = "int"
                /\ result.val \in Majorities(args.nums)
           ELSE result = NoneResult

C13_Witness ==
    /\ Done("majorityElement")
    /\ Len(args.nums) = 4
    /\ \E v \in Elements(args.nums) : Count(args.nums, v) = 2
    /\ result = NoneResult

\* the positions (1-based) whose value already occurs at an earlier position
Repeats(nums) == {j \in DOMAIN nums : \E i \in 1..(j - 1) : nums[i] = nums[j]}

\* C14: containsDuplicate / contains_duplicates returns True when some value
\* occurs at least twice and False when all values are distinct, and returns
\* True at the first position whose value was already seen, having taken no
\* later element from nums.
C14_DuplicateFoundAtFirstRepeat ==
    (pc = "done" /\ op \in DuplicateOps)
        => /\ result.kind = "bool"
           /\ result.val = (Repeats(args.nums) # {})
           /\ IF result.val
              THEN /\ result.examined \in Repeats(args.nums)
                   /\ \A j \in Repeats(args.nums) : result.examined <= j
              ELSE result.examined = Len(args.nums)

C14_Witness ==
    /\ Done("containsDuplicate")
    /\ result.val = TRUE
    /\ result.examined >= 3
    /\ result.examined < Len(args.nums)

\* C15: for both reverseString (two-pointer swap and stack), one call returns
\* the characters of s in the opposite order and a second call on that
\* result returns s.
C15_ReverseIsInvolution ==
    (pc \in {"done", "twice"} /\ op \in ReverseOps)
        => /\ result.kind = "str"
           /\ pc = "done" => result.val = Reverse(args.s)
           /\ pc = "twice" => result.val = args.s

C15_Witness ==
    /\ pc = "twice"
    /\ op = "twoPointers_reverseString"
    /\ Len(args.s) >= 4
    /\ args.s # Reverse(args.s)
    /\ result.val = args.s

\* the positions (0-based) before j holding the complement of nums[j]
Partners(nums, target, j) ==
    {i \in 0..(j - 1) : nums[i + 1] = target - nums[j + 1]}
\* the smallest position that has a partner before it
FirstSecond(nums, target) ==
    CHOOSE j \in 0..(Len(nums) - 1) :
        /\ Partners(nums, target, j) # {}
        /\ \A q \in 0..(j - 1) : Partners(nums, target, q) = {}

\* C16: when several pairs sum to target, twoSum of HashMap.py returns
\* [i, j] with i < j, j the smallest index that has a partner before it and
\* i the EARLIEST occurrence of the complement target - nums[j] before j.
C16_ReturnsEarliestComplement ==
    (Done("HashMap_twoSum") /\ Cardinality(Pairs(args.nums, args.target)) >= 2)
        => /\ result.kind = "list"
           /\ Len(result.val) = 2
           /\ result.val[1] < result.val[2]
           /\ result.val[2] = FirstSecond(args.nums, args.target)
           /\ result.val[1] \in Partners(args.nums, args.target, result.val[2])
           /\ \A i \in Partners(args.nums, args.target, result.val[2]) :
                result.val[1] <= i

\* C16 as amended: the same, with i the LATEST occurrence of the complement
\* before j (seen[num] = i overwrites the index of an earlier occurrence).
C16_ReturnsLatestComplement ==
    (Done("HashMap_twoSum") /\ Cardinality(Pairs(args.nums, args.target)) >= 2)
        => /\ result.kind = "list"
           /\ Len(result.val) = 2
           /\ result.val[1] < result.val[2]
           /\ result.val[2] = FirstSecond(args.nums, args.target)
           /\ result.val[1] \in Partners(args.nums, args.target, result.val[2])
           /\ \A i \in Partners(args.nums, args.target, result.val[2]) :
                i <= result.val[1]

C16_Witness ==
    /\ Done("HashMap_twoSum")
    /\ Cardinality(Pairs(args.nums, args.target)) >= 2
    /\ result.kind = "list"
    /\ Cardinality(Partners(args.nums, args.target, result.val[2])) >= 2

RECURSIVE ListNodes(_, _, _)
\* the nodes met following next from node, for at most fuel nodes
ListNodes(heap, node, fuel) ==
    IF node = None \/ fuel = 0 THEN <<>>
    ELSE <<node>> \o ListNodes(heap, heap.next[node], fuel - 1)

\* C17: mergeTwoLists relinks the input nodes: the returned list is made of
\* the nodes of l1 and l2, each exactly once and none other (only the dummy
\* is created, and no val changes), the nodes of each input keep their
\* order, on equal values a node of l1 comes before a node of l2, and the
\* result is acyclic.
C17_MergeRelinksInputNodes ==
    Done("mergeTwoLists")
        => LET n == Cardinality(DOMAIN args.heap.val)
               in1 == ListNodes(args.heap, args.l1, n)
               in2 == ListNodes(args.heap, args.l2, n)
               out == ListNodes(result.heap, result.val, n + 2)
               From1(x) == x \in Elements(in1)
               From2(x) == x \in Elements(in2)
           IN  /\ DOMAIN result.heap.val = (DOMAIN args.heap.val) \cup {n + 1}
               /\ \A x \in DOMAIN args.heap.val : result.heap.val[x] = args.heap.val[x]
               /\ Elements(out) = Elements(in1) \cup Elements(in2)
               /\ Len(out) = Len(in1) + Len(in2)
               /\ \A x \in Elements(out) : Count(out, x) = 1
               /\ SelectSeq(out, From1) = in1
               /\ SelectSeq(out, From2) = in2
               /\ \A p, q \in DOMAIN out :
                    (/\ From1(out[p])
                     /\ From2(out[q])
                     /\ args.heap.val[out[p]] = args.heap.val[out[q]]) => p < q
               /\ Acyclic(result.heap.next, result.val)

C17_Witness ==
    /\ Done("mergeTwoLists")
    /\ LET n == Cardinality(DOMAIN args.heap.val)
           in1 == ListNodes(args.heap, args.l1, n)
           in2 == ListNodes(args.heap, args.l2, n)
       IN  /\ Len(in1) >= 2
           /\ Len(in2) >= 2
           /\ args.heap.val[in1[2]] = args.heap.val[in2[1]]
           /\ args.heap.val[in1[1]] < args.heap.val[in1[2]]
           /\ ListNodes(result.heap, result.val, n + 2)
                = <<in1[1], in1[2], in2[1]>> \o SubSeq(in2, 2, Len(in2))

\* C18: hasCycle terminates on every finite linked structure: on a list with
\* a cycle slow and fast become equal after finitely many steps (True is
\* returned), on an acyclic list fast reaches the end (False is returned),
\* and next of an absent node is never dereferenced (no AttributeError).
C18_hasCycleTerminates ==
    /\ [](result.kind # "raise")
    /\ [](pc = "loop" => result.steps <= Cardinality(DOMAIN args.next))
    /\ (~Acyclic(args.next, args.head))
          ~> (pc = "done" /\ result.kind = "bool" /\ result.val = TRUE
                /\ result.slow = result.fast /\ result.slow # None)
    /\ Acyclic(args.next, args.head)
          ~> (pc = "done" /\ result.kind = "bool" /\ result.val = FALSE
                /\ (result.fast = None \/ args.next[result.fast] = None))

C18_Witness ==
    /\ pc = "done"
    /\ result.kind = "bool"
    /\ result.val = TRUE
    /\ result.steps >= 3
    /\ args.next[args.head] # args.head

\* position i of p holds a non-closing character that a later closing
\* character of p closes: the matching bracket, with a well nested string
\* in between
Closed(p, i) ==
    \E j \in (i + 1)..Len(p) :
        Matches(p[i], p[j]) /\ WellNested(SubSeq(p, i + 1, j - 1))
\* the non-closing characters of p that are not closed yet, in order
RECURSIVE UnmatchedFrom(_, _)
UnmatchedFrom(p, i) ==
    IF i > Len(p) THEN <<>>
    ELSE IF p[i] \notin Closing /\ ~Closed(p, i)
         THEN <<p[i]>> \o UnmatchedFrom(p, i + 1)
         ELSE UnmatchedFrom(p, i + 1)
Unmatched(p) == UnmatchedFrom(p, 1)

\* C19: isValid pushes every character that is not a closing bracket, so it
\* returns False on every string with a character outside '(){}[]', and
\* after each character the stack holds exactly the not-yet-matched
\* non-closing characters, in order.
C19_NonBracketsArePushed ==
    (pc = "done" /\ op \in BracketOps)
        => /\ result.kind = "bool"
           /\ (\E k \in DOMAIN args.s : args.s[k] \notin BracketChars)
                => result.val = FALSE
           /\ result.val = TRUE => Len(result.stacks) = Len(args.s)
           /\ \A k \in DOMAIN result.stacks :
                /\ result.stacks[k] = Unmatched(SubSeq(args.s, 1, k))
                /\ args.s[k] \notin Closing
                     => /\ result.stacks[k] # <<>>
                        /\ Top(result.stacks[k]) = args.s[k]

C19_Witness ==
    /\ Done("Stacks_isValid")
    /\ args.s = <<"(", "a", ")">>
    /\ result = Validity(FALSE, <<(<<"(">>), (<<"(", "a">>)>>)

\* C20: the two normalized isPalindrome return the same result on every
\* string, and each reads s only at indices within 0..len(s)-1 (so never
\* raises), strings of non-alphanumeric characters and "" included.
C20_PalindromesAgreeInRange ==
    (pc = "done" /\ op \in PalindromeOps)
        => LET other == IF op = "isPalindrome"
                        THEN twoPointers_isPalindrome(args.s)
                        ELSE isPalindrome(args.s)
           IN  /\ result.kind = "bool"
               /\ other.kind = "bool"
               /\ result.val = other.val
               /\ result.reads \subseteq 0..(Len(args.s) - 1)

C20_Witness ==
    /\ Done("twoPointers_isPalindrome")
    /\ Len(args.s) >= 3
    /\ \A k \in DOMAIN args.s : ~isalnum(args.s[k])
    /\ result.val = TRUE
    /\ result.reads # {}

====
